---- MODULE Spec2Model ----
(***************************************************************************)
(* Contact simulation engine of the satellite communication simulator:     *)
(* computeLinkMetrics3D (src/src/lib/linkMath3D.ts), the simulation worker *)
(* (runSimulation, its propagator and its message handler,                 *)
(* src/src/workers/simulation.worker.ts), the SimulationEngine that drives *)
(* the worker (src/src/lib/simulate.ts) and the hourly summary of the      *)
(* results panel (src/unnamed/part_000).                                   *)
(*                                                                         *)
(* Specifications.  Spec runs computeLinkMetrics3D on timelines of a few   *)
(* steps, whose steps range over all the cases of the pair test.           *)
(* WorkerSpec runs one message through the worker's handler, over the 1440 *)
(* steps the worker always simulates.  OrbitSpec runs the propagator on a  *)
(* grid of orbital elements and times, SegmentSpec segmentMinDistance on   *)
(* pairs of points, and EngineSpec the SimulationEngine with its worker's  *)
(* messages in flight (EngineFairSpec: with the worker and the delivery of *)
(* messages going on).                                                     *)
(*                                                                         *)
(* Numbers.  The code works in IEEE doubles; the model works in exact      *)
(* integer arithmetic on a coarse grid.  A Vec3 is a triple of integers,   *)
(* in units of 1000 km.  A length is never computed: every test of the     *)
(* code compares a length with EARTH_RADIUS or a cosine with a threshold,  *)
(* and the model decides the same comparison on squares and on fractions.  *)
(* A division by zero of the code yields NaN, and every comparison with    *)
(* NaN is false; the model does the same.                                  *)
(*                                                                         *)
(* Build flags.  EMERGENCY_MODE selects the path computeLinkMetrics3D      *)
(* takes, SPECIAL_CONFIG the way runSimulation chooses the orbits.  The    *)
(* source sets both to true; the model covers both values of each, so that *)
(* both paths are checked.                                                 *)
(***************************************************************************)
EXTENDS Integers, Sequences, FiniteSets

VARIABLES
    EMERGENCY_MODE,   \* linkMath3D.ts:10, the build's mode flag
    params,           \* the caller-supplied antenna half-angles (degrees)
    beaconTimeline,   \* BeaconState[]: one [pos, planeNormal] per step
    iridiumTimeline,  \* IridiumStates: per step, the list of remote positions
    metrics,          \* LinkMetrics3D of the latest run, or NoMetrics
    result,           \* SimulationResult fields of the latest run, or NoResult
    rerun,            \* TRUE once a second run was made on the same inputs
    SPECIAL_CONFIG,   \* simulation.worker.ts:205, the worker's mode flag
    request,          \* the SimulationParams of the 'start' message, or NoRequest
    propagated,       \* what the worker's run propagated, or NotPropagated
    outbox,           \* the messages the worker has posted, in order
    panel,            \* what ResultsPanel shows of the result, or NoPanel
    orbits,           \* two satellites and what the propagator returned for them
    segment,          \* two points and what segmentMinDistance returned for them
    inbox,            \* the messages sent to the worker that it has not handled yet
    isRunning,        \* simulate.ts:8, SimulationEngine.isRunning
    worker,           \* simulate.ts:7, SimulationEngine.worker: a Worker, or 0 for null
    workers,          \* the Workers the engine has created, in order of creation
    promises,         \* the promises runSimulation has returned, in order
    calls             \* the outcome of each call of runSimulation, in order

vars == <<EMERGENCY_MODE, params, beaconTimeline, iridiumTimeline, metrics, result, rerun,
          SPECIAL_CONFIG, request, propagated, outbox, panel,
          orbits, segment, inbox,
          isRunning, worker, workers, promises, calls>>

\* the variables of computeLinkMetrics3D's runs
linkVars == <<EMERGENCY_MODE, params, beaconTimeline, iridiumTimeline, metrics, result, rerun>>

\* the variables of the worker and of the page
workerVars == <<SPECIAL_CONFIG, request, propagated, outbox, panel, inbox>>

\* the variables of the propagator and of segmentMinDistance
geometryVars == <<orbits, segment>>

\* the variables of the SimulationEngine
engineVars == <<isRunning, worker, workers, promises, calls>>

\* no SimulationEngine has been constructed
NoEngine ==
    /\ isRunning = FALSE
    /\ worker = 0
    /\ workers = << >>
    /\ promises = << >>
    /\ calls = << >>

----------------------------------------------------------------------------
(* Bounds of the model *)

\* longest timeline (number of steps) of a run
MaxSteps == 3
\* longest timeline whose steps are all the same
MaxLongSteps == 8
\* largest value drawn for Math.floor(Math.random() * 30)
MaxOffsetDraw == 9

----------------------------------------------------------------------------
(* Constants of linkMath3D.ts *)

\* const DEBUG_MODE = true
DEBUG_MODE == TRUE

\* export const EARTH_RADIUS = 6371 (km)
EARTH_RADIUS == 6371

\* Cosines are fractions <<p, q>>, q > 0.
\* COS_BEACON = EMERGENCY_MODE ? -0.9999
\*            : (DEBUG_MODE ? Math.cos(Math.PI * 0.9) : Math.cos(BEACON_HALF_ANGLE))
\* cos(0.9 pi) = -0.95105..., cos(60 deg) = 0.5
COS_BEACON ==
    IF EMERGENCY_MODE THEN <<-9999, 10000>>
    ELSE IF DEBUG_MODE THEN <<-9511, 10000>> ELSE <<5000, 10000>>

\* COS_IRIDIUM, likewise; cos(31 deg) = 0.85716...
COS_IRIDIUM ==
    IF EMERGENCY_MODE THEN <<-9999, 10000>>
    ELSE IF DEBUG_MODE THEN <<-9511, 10000>> ELSE <<8572, 10000>>

----------------------------------------------------------------------------
(* Vec3 helpers *)

dot(a, b) == a[1]*b[1] + a[2]*b[2] + a[3]*b[3]

cross(a, b) ==
    << a[2]*b[3] - a[3]*b[2],
       a[3]*b[1] - a[1]*b[3],
       a[1]*b[2] - a[2]*b[1] >>

\* norm(v) squared
norm2(v) == dot(v, v)

sub(a, b) == << a[1]-b[1], a[2]-b[2], a[3]-b[3] >>

neg(a) == << -a[1], -a[2], -a[3] >>

Min(a, b) == IF a <= b THEN a ELSE b

Max(a, b) == IF a >= b THEN a ELSE b

\* a/b <= c/d for a, c >= 0 and b, d > 0, by the Euclidean algorithm (no product,
\* so no overflow)
RECURSIVE FracLeq(_, _, _, _)
FracLeq(a, b, c, d) ==
    IF (a \div b) # (c \div d) THEN (a \div b) < (c \div d)
    ELSE IF a % b = 0 THEN TRUE
    ELSE IF c % d = 0 THEN FALSE
    ELSE FracLeq(d, c % d, b, a % b)

\* num / sqrt(den2) >= cos, for a cosine <<p, q>>; den2 = 0 is a division by
\* zero in the code: NaN >= cos is false
CosGeq(num, den2, cos) ==
    IF den2 = 0 THEN FALSE
    ELSE IF cos[1] <= 0
         THEN num >= 0 \/ FracLeq(num * num, den2, cos[1] * cos[1], cos[2] * cos[2])
         ELSE num > 0 /\ FracLeq(cos[1] * cos[1], cos[2] * cos[2], num * num, den2)

\* EARTH_RADIUS squared, as a fraction in the grid's unit of 1000 km
EarthRadius2 == <<EARTH_RADIUS * EARTH_RADIUS, 1000 * 1000>>

\* norm(r) <= EARTH_RADIUS
BelowHorizon(r) == FracLeq(norm2(r), 1, EarthRadius2[1], EarthRadius2[2])

\* the distance from the origin to the whole line through r1 and r2, squared
segmentMinDistance_Line(r1, r2) ==
    LET v == sub(r2, r1)
    IN  IF dot(v, v) = 0 THEN <<norm2(r1), 1>>
        ELSE <<norm2(cross(r1, v)), dot(v, v)>>

\* segmentMinDistance(r1, r2), squared, as a fraction <<num, den>>
segmentMinDistance(r1, r2) ==
    LET v == sub(r2, r1)
        vNorm2 == dot(v, v)
    IN  IF vNorm2 = 0 THEN <<norm2(r1), 1>>
        ELSE IF 0 <= -dot(r1, v) /\ -dot(r1, v) <= vNorm2
             THEN <<norm2(cross(r1, v)), vNorm2>>
             ELSE <<Min(norm2(r1), norm2(r2)), 1>>

\* segmentMinDistance(r1, r2) < EARTH_RADIUS
EarthBlocks(r1, r2) ==
    LET d == segmentMinDistance(r1, r2)
    IN  ~FracLeq(EarthRadius2[1], EarthRadius2[2], d[1], d[2])

----------------------------------------------------------------------------
(* computeLinkMetrics3D, the geometric path (linkMath3D.ts:334-410) *)

\* nPerp = n - (n . r1u) r1u, scaled by the positive factor |r1|^2
nPerp(b) ==
    LET r1 == b.pos
        n  == b.planeNormal
    IN  << norm2(r1) * n[1] - dot(n, r1) * r1[1],
           norm2(r1) * n[2] - dot(n, r1) * r1[2],
           norm2(r1) * n[3] - dot(n, r1) * r1[3] >>

\* velDir = nHat x r1u, scaled by the positive factor |nPerp| |r1|^3
velDir(b) == cross(nPerp(b), b.pos)

\* nNorm === 0 or velNorm === 0: the step has no boresight
Degenerate(b) == norm2(nPerp(b)) = 0 \/ norm2(velDir(b)) = 0

\* boresights = [vHat, -vHat]; okBeacon = boresights.some(b => dot(b, vUnit) >= COS_BEACON)
okBeacon(b, r2) ==
    LET v == sub(r2, b.pos)
    IN  \E bs \in {velDir(b), neg(velDir(b))} :
            CosGeq(dot(bs, v), norm2(bs) * norm2(v), COS_BEACON)

\* okIridium = dot(r2u, -vUnit) >= COS_IRIDIUM
okIridium(b, r2) ==
    LET v == sub(r2, b.pos)
    IN  CosGeq(dot(r2, neg(v)), norm2(r2) * norm2(v), COS_IRIDIUM)

\* one pass of the loop over iridiumTimeline[i]: TRUE iff it reaches linked = true
PairLinked(b, r2) ==
    /\ ~BelowHorizon(r2)
    /\ ~EarthBlocks(b.pos, r2)
    /\ okBeacon(b, r2)
    /\ okIridium(b, r2)

\* the loop over iridiumTimeline[i], which stops at the first remote that passes
AnyLinked(b, remotes) == \E k \in 1..Len(remotes) : PairLinked(b, remotes[k])

\* the state of the counting loops before step 0
LoopInit ==
    [hsCount |-> 0, outCount |-> 0, outDur |-> 0, inOut |-> FALSE,
     prevLinked |-> FALSE, timeline |-> << >>]

\* the outage logic shared by the branches that do account a step
OutageLogic(st, linked) ==
    IF ~linked
    THEN [st EXCEPT !.outCount = IF st.inOut THEN @ ELSE @ + 1,
                    !.inOut = TRUE,
                    !.outDur = @ + 1]
    ELSE [st EXCEPT !.inOut = FALSE]

\* one iteration of the geometric loop (linkMath3D.ts:334-406)
GeometricStep(st, b, remotes) ==
    IF BelowHorizon(b.pos)
    THEN \* beacon not above the horizon: accounted as an outage step
         [OutageLogic(st, FALSE) EXCEPT !.timeline = Append(@, FALSE),
                                        !.prevLinked = FALSE]
    ELSE IF Degenerate(b)
    THEN \* zero normal / zero velocity: timeline[i] = false; prevLinked = false; continue
         [st EXCEPT !.timeline = Append(@, FALSE), !.prevLinked = FALSE]
    ELSE LET linked == AnyLinked(b, remotes)
             hs == IF linked /\ ~st.prevLinked
                   THEN [st EXCEPT !.hsCount = @ + 1] ELSE st
         IN  [OutageLogic(hs, linked) EXCEPT !.timeline = Append(@, linked),
                                             !.prevLinked = linked]

\* for (let i = 0; i < steps; i++): the iterations lo..hi (1-based), in
\* order, from the loop state st.  The range is run by halves, the first half
\* before the second, which keeps the evaluation shallow on long timelines.
RECURSIVE GeometricLoop(_, _, _, _, _)
GeometricLoop(bt, it, lo, hi, st) ==
    IF lo > hi THEN st
    ELSE IF lo = hi THEN GeometricStep(st, bt[lo], it[lo])
    ELSE LET mid   == (lo + hi) \div 2
             first == GeometricLoop(bt, it, lo, mid, st)
         IN  IF Len(first.timeline) >= 0
             THEN GeometricLoop(bt, it, mid + 1, hi, first)
             ELSE first

----------------------------------------------------------------------------
(* computeLinkMetrics3D, the EMERGENCY_MODE path (linkMath3D.ts:254-332) *)

ORBITAL_PERIOD_MINUTES == 100

HANDSHAKE_DURATION_MINUTES == 10

\* Math.floor(24 * 60 / ORBITAL_PERIOD_MINUTES)
DAILY_ORBITS == (24 * 60) \div ORBITAL_PERIOD_MINUTES

ADDITIONAL_HANDSHAKES == 3

\* the minutes one handshake window sets to true:
\* floor(max(0, center - 5)) .. floor(min(steps - 1, center + 5)), each < steps
HandshakeWindow(center, steps) ==
    Max(0, center - HANDSHAKE_DURATION_MINUTES \div 2)
        .. Min(steps - 1, center + HANDSHAKE_DURATION_MINUTES \div 2)

\* the timeline after the two window loops; d holds the values drawn from
\* Math.random: d.initialOffset and the centers d.extra[1..3]
SyntheticTimeline(steps, d) ==
    [i \in 1..steps |->
        \/ \E orbit \in 0..DAILY_ORBITS :
              (i - 1) \in HandshakeWindow(d.initialOffset + orbit * ORBITAL_PERIOD_MINUTES, steps)
        \/ \E k \in 1..ADDITIONAL_HANDSHAKES :
              (i - 1) \in HandshakeWindow(d.extra[k], steps)]

\* one iteration of the counting loop (linkMath3D.ts:313-328)
SyntheticStep(st, tl, i) ==
    LET hs == IF i > 1 /\ ~st.prevLinked /\ tl[i]
              THEN [st EXCEPT !.hsCount = @ + 1] ELSE st
    IN  [OutageLogic(hs, tl[i]) EXCEPT !.timeline = Append(@, tl[i]),
                                       !.prevLinked = tl[i]]

\* the counting loop, iterations lo..hi in order, run by halves as above
RECURSIVE SyntheticLoop(_, _, _, _)
SyntheticLoop(tl, lo, hi, st) ==
    IF lo > hi THEN st
    ELSE IF lo = hi THEN SyntheticStep(st, tl, lo)
    ELSE LET mid   == (lo + hi) \div 2
             first == SyntheticLoop(tl, lo, mid, st)
         IN  IF Len(first.timeline) >= 0
             THEN SyntheticLoop(tl, mid + 1, hi, first)
             ELSE first

----------------------------------------------------------------------------
(* computeLinkMetrics3D and runSimulation's result *)

\* what the function returns from the final loop state
Metrics(st) ==
    [handshakeCount |-> st.hsCount, outageCount |-> st.outCount,
     outageDuration |-> st.outDur, timeline |-> st.timeline]

\* tl is the timeline the window loops leave, which depends on Math.random
computeLinkMetrics3D(bt, it, tl) ==
    IF Len(it) # Len(bt) THEN [error |-> "Timeline length mismatch"]
    ELSE IF EMERGENCY_MODE
    THEN Metrics(SyntheticLoop(tl, 1, Len(tl), LoopInit))
    ELSE Metrics(GeometricLoop(bt, it, 1, Len(bt), LoopInit))

\* const actualTimeStep = 60
actualTimeStep == 60

\* avgOutage without the outageCount > 0 guard
avgOutage_Unguarded(m) == <<m.outageDuration * actualTimeStep, m.outageCount>>

\* avgOutage, as a fraction <<num, den>>
avgOutage(m) ==
    IF m.outageCount > 0
    THEN <<m.outageDuration * actualTimeStep, m.outageCount>>
    ELSE <<0, 1>>

\* the statistics of the SimulationResult runSimulation returns
SimulationResult(m) ==
    [contactFlags |-> [i \in 1..Len(m.timeline) |-> IF m.timeline[i] THEN 1 ELSE 0],
     totalContact |-> Cardinality({i \in 1..Len(m.timeline) : m.timeline[i]}) * actualTimeStep,
     handshakes   |-> m.handshakeCount,
     totalOutage  |-> m.outageDuration * actualTimeStep,
     outages      |-> m.outageCount,
     avgOutage    |-> avgOutage(m)]

----------------------------------------------------------------------------
(* Inputs *)

\* BeaconState { pos, planeNormal }
Beacon(p, n) == [pos |-> p, planeNormal |-> n]

\* one step of the two timelines: beaconTimeline[i] and iridiumTimeline[i]
StepInput(b, rs) == [beacon |-> b, remotes |-> rs]

\* the plane normal of an orbit in the x-y plane: the beacon at (r,0,0) flies along +y
NormalZ == <<0, 0, 1>>

\* The steps the timelines are built from, in units of 1000 km:
StepInputs ==
    { \* remote straight ahead of the beacon, along its velocity
      StepInput(Beacon(<<7, 0, 0>>, NormalZ), << <<7, 3, 0>> >>),
      \* remote straight above the beacon: the beacon is at the remote's nadir
      StepInput(Beacon(<<7, 0, 0>>, NormalZ), << <<8, 0, 0>> >>),
      \* remote straight below the beacon: the beacon is at the remote's zenith
      StepInput(Beacon(<<8, 0, 0>>, NormalZ), << <<7, 0, 0>> >>),
      \* remote behind the Earth
      StepInput(Beacon(<<7, 0, 0>>, NormalZ), << <<-8, 0, 0>> >>),
      \* two remotes: the first behind the Earth, the second straight ahead
      StepInput(Beacon(<<7, 0, 0>>, NormalZ), << <<-8, 0, 0>>, <<7, 3, 0>> >>),
      \* remote below the Earth's radius
      StepInput(Beacon(<<7, 0, 0>>, NormalZ), << <<6, 0, 0>> >>),
      \* remote at the beacon's own position
      StepInput(Beacon(<<7, 0, 0>>, NormalZ), << <<7, 0, 0>> >>),
      \* plane normal parallel to the beacon's position: nPerp is zero
      StepInput(Beacon(<<7, 0, 0>>, <<1, 0, 0>>), << <<7, 3, 0>> >>),
      \* beacon below the Earth's radius
      StepInput(Beacon(<<6, 0, 0>>, NormalZ), << <<7, 3, 0>> >>) }

\* the timelines of 0..MaxSteps steps
RECURSIVE StepSeqs(_)
StepSeqs(n) ==
    IF n = 0 THEN { << >> }
    ELSE LET shorter == StepSeqs(n - 1)
         IN  shorter \cup { Append(s, x) : s \in { t \in shorter : Len(t) = n - 1 },
                                           x \in StepInputs }

\* the longer timelines, of MaxSteps+1..MaxLongSteps equal steps
UniformSeqs ==
    { [i \in 1..n |-> x] : n \in (MaxSteps + 1)..MaxLongSteps, x \in StepInputs }

\* BeaconConfig.antennaHalfAngle and IridiumConfig.antennaHalfAngle, in degrees
HalfAngleInputs ==
    { [beaconHalfAngle |-> 0,  iridiumHalfAngle |-> 0],
      [beaconHalfAngle |-> 70, iridiumHalfAngle |-> 31] }

\* the values Math.random() yields in one call of computeLinkMetrics3D:
\* initialOffset = floor(random * 30), and the three centers
\* randomHour * 60 + randomMinute with randomHour = 12 + floor(random * 11)
\* and randomMinute = floor(random * 60)
ExtraCenters == { 12 * 60, 22 * 60 + 59 }

RandomDraws ==
    [initialOffset : 0..MaxOffsetDraw,
     extra : [1..ADDITIONAL_HANDSHAKES -> ExtraCenters]]

\* the timelines the window loops can leave for each number of steps, over
\* the values Math.random can yield
SyntheticTimelines ==
    [steps \in 0..MaxLongSteps |-> { SyntheticTimeline(steps, d) : d \in RandomDraws }]

NoMetrics == [none |-> TRUE]

NoResult == [none |-> TRUE]

NoRequest == [none |-> TRUE]

NotPropagated == [none |-> TRUE]

NoPanel == [none |-> TRUE]

NoOrbits == [none |-> TRUE]

NoSegment == [none |-> TRUE]

----------------------------------------------------------------------------
(* The state machine *)

Init ==
    /\ EMERGENCY_MODE \in BOOLEAN
    /\ params \in HalfAngleInputs
    /\ \E s \in StepSeqs(MaxSteps) \cup UniformSeqs :
          /\ beaconTimeline = [i \in 1..Len(s) |-> s[i].beacon]
          /\ iridiumTimeline = [i \in 1..Len(s) |-> s[i].remotes]
    /\ metrics = NoMetrics
    /\ result = NoResult
    /\ rerun = FALSE
    /\ SPECIAL_CONFIG = TRUE
    /\ request = NoRequest
    /\ propagated = NotPropagated
    /\ outbox = << >>
    /\ panel = NoPanel
    /\ orbits = NoOrbits
    /\ segment = NoSegment
    /\ inbox = << >>
    /\ NoEngine

\* one 'start' request: runSimulation calls computeLinkMetrics3D on the two
\* timelines and derives the statistics it returns.  The same inputs are run
\* twice.
Run ==
    /\ ~rerun
    /\ \E tl \in SyntheticTimelines[Len(beaconTimeline)] :
          LET m == computeLinkMetrics3D(beaconTimeline, iridiumTimeline, tl)
          IN  /\ metrics' = m
              /\ result' = SimulationResult(m)
    /\ rerun' = (metrics # NoMetrics)
    /\ UNCHANGED <<EMERGENCY_MODE, params, beaconTimeline, iridiumTimeline>>
    /\ UNCHANGED <<SPECIAL_CONFIG, request, propagated, outbox, panel>>
    /\ UNCHANGED <<orbits, segment, inbox, engineVars>>

Next == Run

Spec == Init /\ [][Next]_vars

----------------------------------------------------------------------------
(* The simulation worker (simulation.worker.ts): units and orbit selection *)

(* Angles.  A value in degrees is an integer number of tenths of a degree,   *)
(* a value in radians an integer number of thousandths of a degree (the      *)
(* unit pi/180000 rad).  Altitudes are integers, in km.  A value drawn from  *)
(* Math.random() is an integer number of thousandths, in 0..999.             *)

\* an optional number: absent, or present with a value
Undefined == [defined |-> FALSE, value |-> 0]

Defined(v) == [defined |-> TRUE, value |-> v]

\* a number that may be NaN (the result of Math.acos outside [-1, 1])
NaN == [nan |-> TRUE, value |-> 0]

Number(v) == [nan |-> FALSE, value |-> v]

\* deg * Math.PI / 180
deg2rad(deg) == deg * 100

\* rad * 180 / Math.PI, to the tenth of a degree
rad2deg(rad) == rad \div 100

\* Math.PI, in the unit of the radians
PI == 180000

\* (15 * lstHours) * Math.PI / 180
computeRAANFromLST(lstHours) == deg2rad(15 * lstHours * 10)

\* computeSunSynchronousInclination on the altitudes of the requests below:
\* acos(-0.12865) = 97.392 deg at 500 km; at 6000 km the argument is -1.0075
\* and Math.acos yields NaN
computeSunSynchronousInclination(altitude) ==
    CASE altitude = 500  -> Number(97392)
      [] altitude = 6000 -> NaN

\* const totalSteps = 24 * 60
totalSteps == 24 * 60

\* an optional number is falsy in JavaScript: undefined, or 0
Falsy(x) == ~x.defined \/ x.value = 0

\* what the orbit selection (simulation.worker.ts:207-240) leaves:
\* beaconInclination, beaconRAAN, and the error it posted, if any
BeaconOrbit(inc, raan, err) == [inclination |-> inc, raan |-> raan, error |-> err]

NoError == "none"

\* the catch block: the error is posted and the orbit is the default one
DefaultOrbit(message) == BeaconOrbit(deg2rad(986), 0, message)

SelectBeaconOrbit(beaconMode, beaconConfig) ==
    IF SPECIAL_CONFIG
    THEN BeaconOrbit(deg2rad(850), 0, NoError)
    ELSE IF beaconMode = "sun-synchronous"
    THEN LET inc == computeSunSynchronousInclination(beaconConfig.altitude)
             lst == IF Falsy(beaconConfig.localSolarTime)
                    THEN 10 ELSE beaconConfig.localSolarTime.value
         IN  IF inc.nan
             THEN DefaultOrbit("Invalid altitude for sun-synchronous orbit")
             ELSE BeaconOrbit(inc.value, computeRAANFromLST(lst), NoError)
    ELSE IF beaconMode = "non-polar"
    THEN LET inc == deg2rad(beaconConfig.inclination)
         IN  IF inc < deg2rad(300) \/ inc > deg2rad(980)
             THEN DefaultOrbit("Inclination for non-polar orbit must be between 30 and 98")
             ELSE BeaconOrbit(inc, 0, NoError)
    ELSE \* custom
         BeaconOrbit(deg2rad(beaconConfig.inclination),
                     IF Falsy(beaconConfig.localSolarTime)
                     THEN 0 ELSE computeRAANFromLST(beaconConfig.localSolarTime.value),
                     NoError)

\* a member of allSatellites
Satellite(id, altitude, inclination, raan, initialPhase) ==
    [id |-> id, altitude |-> altitude, inclination |-> inclination,
     raan |-> raan, initialPhase |-> initialPhase]

\* the list runSimulation propagates (simulation.worker.ts:249-273)
SelectSatellites(iridiumConfig, beaconRAAN) ==
    IF iridiumConfig.showAllSatellites /\ Len(iridiumConfig.allSatellites) > 0
    THEN iridiumConfig.allSatellites
    ELSE IF SPECIAL_CONFIG
    THEN << Satellite(iridiumConfig.satelliteId, 780, 864, Undefined, Defined(PI \div 4)) >>
    ELSE << Satellite(iridiumConfig.satelliteId, iridiumConfig.altitude,
                      iridiumConfig.inclination,
                      Defined(rad2deg((beaconRAAN + PI) % (2 * PI))),
                      Defined(PI \div 2)) >>

----------------------------------------------------------------------------
(* The simulation worker: propagation (simulation.worker.ts:292-378) *)

(* Math.random().  One run draws its values from one stream; a stream gives  *)
(* the value drawn at a step for a member.  "low" always draws 0, "high"     *)
(* always 0.999, "alternating" one then the other.                           *)
RandomStreams == {"low", "high", "alternating"}

Draw(stream, step, index) ==
    CASE stream = "low"  -> 0
      [] stream = "high" -> 999
      [] stream = "alternating" -> IF (step + index) % 2 = 0 THEN 0 ELSE 999

\* (Math.random() * 0.01) - 0.005, in radians: 0.01 rad is 573 thousandths of
\* a degree
RandomOffset(u) == ((u - 500) * 573) \div 1000

\* the largest number of members a request lists
MaxMembers == 2

\* 0.1 * sin(basePhase * 3) + 0.05 * cos(basePhase * 7), in radians, for
\* basePhase = ((index % 11) / 11) * 2 pi, on the indices 0..MaxMembers
PhasePerturbation(index) ==
    CASE index % 11 = 0 -> 2865
      [] index % 11 = 1 -> 3795
      [] index % 11 = 2 -> -2022

\* the elements positionInOrbit is called with for member sat, at position
\* index of the list, at one step; u is the value Math.random() yields
MemberElements(sat, index, u) ==
    LET plane     == index \div 11
        basePhase == ((index % 11) * 2 * PI) \div 11
        satPhase  == IF sat.initialPhase.defined THEN sat.initialPhase.value
                     ELSE basePhase + PhasePerturbation(index)
        raan      == IF sat.raan.defined THEN deg2rad(sat.raan.value)
                     ELSE plane * deg2rad(316) + RandomOffset(u)
        inclination == deg2rad(sat.inclination) + RandomOffset(u)
        altitude  == IF sat.altitude < 200 \/ sat.altitude > 1000
                     THEN 780 + (u * 15) \div 1000
                     ELSE sat.altitude
    IN  [altitude |-> altitude, inclination |-> inclination,
         raan |-> raan, phase |-> satPhase]

(* Positions.  positionInOrbit and calculatePlaneNormal evaluate             *)
(* trigonometric functions of the elements; they are computed in the         *)
(* section on the propagator below, for elements on a grid of angles.  The   *)
(* positions of a run of the worker are those of tracks on the grid:         *)
(* circular orbits in the x-y plane that advance a quarter turn per step     *)
(* (the worker's step of 900 s on the 3600 s period of positionInOrbit).     *)
(* The beacon flies at radius 7; the track of a member is given by its id.   *)
(* The elements each call is made with are recorded in `propagated`.         *)

\* v turned by k quarter turns about the z axis
Rot(k, v) ==
    CASE k % 4 = 0 -> v
      [] k % 4 = 1 -> << -v[2], v[1], v[3] >>
      [] k % 4 = 2 -> << -v[1], -v[2], v[3] >>
      [] k % 4 = 3 -> << v[2], -v[1], v[3] >>

\* where the track is at a step, in the frame that turns with the beacon:
\* "ahead" flies ahead of the beacon, "opposite" on the far side of the
\* Earth, "crossing" is ahead at the even steps and opposite at the odd ones
TrackBase(track, step) ==
    CASE track = "beacon"   -> <<7, 0, 0>>
      [] track = "ahead"    -> <<7, 3, 0>>
      [] track = "opposite" -> <<-8, 0, 0>>
      [] track = "crossing" -> IF step % 2 = 0 THEN <<7, 3, 0>> ELSE <<-8, 0, 0>>

TrackPosition(track, step) == Rot(step, TrackBase(track, step))

\* the track of the member with a given id
TrackOf(id) ==
    CASE id = 101 -> "opposite"
      [] id = 102 -> "ahead"
      [] id = 103 -> "crossing"

\* the two timelines and the elements after the propagation loop
Propagate(beaconConfig, orbit, sats, stream) ==
    [beaconTimeline |->
        [i \in 1..totalSteps |-> Beacon(TrackPosition("beacon", i - 1), NormalZ)],
     iridiumTimeline |->
        [i \in 1..totalSteps |->
            [k \in 1..Len(sats) |-> TrackPosition(TrackOf(sats[k].id), i - 1)]],
     beacon |-> [altitude |-> beaconConfig.altitude, inclination |-> orbit.inclination,
                 raan |-> orbit.raan, phase |-> 0],
     satellites |-> sats,
     elements |->
        [i \in 1..totalSteps |->
            [k \in 1..Len(sats) |->
                MemberElements(sats[k], k - 1, Draw(stream, i - 1, k - 1))]]]

----------------------------------------------------------------------------
(* The simulation worker: messages and result *)

\* a reporting rule that differs from the code's: every 100 steps
ProgressDue_EveryHundred(step) == step % 100 = 0

\* step % Math.floor(totalSteps / 10) === 0; a remainder by 0 is NaN
ProgressDue(step) ==
    totalSteps \div 10 # 0 /\ step % (totalSteps \div 10) = 0

\* Math.floor((step / totalSteps) * 100)
ProgressPayload(step) == (step * 100) \div totalSteps

\* a posted message; step is not part of the message: it records the
\* iteration of the propagation loop the message was posted in (-1: none)
Message(type, payload, step) == [type |-> type, payload |-> payload, step |-> step]

\* the progress messages of the propagation loop, steps lo..hi in order
RECURSIVE ProgressMessages(_, _)
ProgressMessages(lo, hi) ==
    IF lo > hi THEN << >>
    ELSE IF lo = hi
    THEN IF ProgressDue(lo)
         THEN << Message("progress", ProgressPayload(lo), lo) >>
         ELSE << >>
    ELSE ProgressMessages(lo, (lo + hi) \div 2)
             \o ProgressMessages((lo + hi) \div 2 + 1, hi)

\* the values one call of computeLinkMetrics3D draws from the stream, in
\* the order of its calls of Math.random: initialOffset, then randomHour and
\* randomMinute of each additional handshake
StreamDraws(stream) ==
    LET u(n) == Draw(stream, n, 0)
        hour(n) == 12 + (u(n) * 11) \div 1000
        minute(n) == (u(n) * 60) \div 1000
    IN  [initialOffset |-> (u(0) * 30) \div 1000,
         extra |-> [k \in 1..ADDITIONAL_HANDSHAKES |->
                        hour(2 * k - 1) * 60 + minute(2 * k)]]

\* per-satellite flags drawn without looking at the primary timeline
AllContactData_Unconditional(iridiumConfig, sats, timeline, stream) ==
    IF iridiumConfig.showAllSatellites /\ Len(sats) > 1
    THEN [defined |-> TRUE,
          data |-> [id \in { sats[k].id : k \in 1..Len(sats) } |->
              [i \in 1..totalSteps |->
                  IF Draw(stream, i - 1, 0) * Len(sats) < 1000 THEN 1 ELSE 0]]]
    ELSE [defined |-> FALSE, data |-> << >>]

\* allContactData (simulation.worker.ts:404-422): per satellite id, the
\* flags of the satellite; a later satellite with the same id overwrites
AllContactData(iridiumConfig, sats, timeline, stream) ==
    IF iridiumConfig.showAllSatellites /\ Len(sats) > 1
    THEN [defined |-> TRUE,
          data |-> [id \in { sats[k].id : k \in 1..Len(sats) } |->
              LET k == CHOOSE k \in 1..Len(sats) :
                          /\ sats[k].id = id
                          /\ \A j \in (k + 1)..Len(sats) : sats[j].id # id
              IN  [i \in 1..totalSteps |->
                      IF timeline[i] /\ Draw(stream, i - 1, k - 1) * Len(sats) < 1000
                      THEN 1 ELSE 0]]]
    ELSE [defined |-> FALSE, data |-> << >>]

\* the SimulationResult of the worker: the statistics, and the per-satellite
\* data
WorkerResult(m, iridiumConfig, sats, stream) ==
    [contactFlags |-> [i \in 1..totalSteps |->
                          IF i <= Len(m.timeline) /\ m.timeline[i] THEN 1 ELSE 0],
     totalContact |-> SimulationResult(m).totalContact,
     handshakes   |-> m.handshakeCount,
     totalOutage  |-> SimulationResult(m).totalOutage,
     outages      |-> m.outageCount,
     avgOutage    |-> avgOutage(m),
     allContactData |-> AllContactData(iridiumConfig, sats, m.timeline, stream)]

----------------------------------------------------------------------------
(* The results panel *)

\* Math.round(num / den) for num >= 0 and den > 0
Round(num, den) == (2 * num + den) \div (2 * den)

\* hourlyStats before the loop
HourlyInit ==
    [h \in 0..23 |-> [handshakes |-> 0, activeLinkSeconds |-> 0, activeLinks |-> 0]]

\* the part of one iteration of the loop over contactFlags that fills
\* hourlyStats; i is the minute index, from 0
HourlyStep(stats, contactFlags, i) ==
    LET currentHourIndex == i \div 60
        inTable == currentHourIndex >= 0 /\ currentHourIndex < 24
        active  == IF inTable /\ contactFlags[i + 1] = 1
                   THEN [stats EXCEPT ![currentHourIndex].activeLinkSeconds = @ + 60]
                   ELSE stats
    IN  IF inTable /\ i > 0 /\ contactFlags[i] = 0 /\ contactFlags[i + 1] = 1
        THEN [active EXCEPT ![currentHourIndex].handshakes = @ + 1]
        ELSE active

\* the iterations lo..hi of the loop, in order
RECURSIVE HourlyLoop(_, _, _, _)
HourlyLoop(contactFlags, lo, hi, stats) ==
    IF lo > hi THEN stats
    ELSE IF lo = hi THEN HourlyStep(stats, contactFlags, lo)
    ELSE LET mid   == (lo + hi) \div 2
             first == HourlyLoop(contactFlags, lo, mid, stats)
         IN  IF first[0].handshakes >= 0
             THEN HourlyLoop(contactFlags, mid + 1, hi, first)
             ELSE first

\* hourlyStats as the table shows it: activeLinks is the minutes of the hour
HourlyStats(contactFlags) ==
    LET filled == HourlyLoop(contactFlags, 0, Len(contactFlags) - 1, HourlyInit)
    IN  [h \in 0..23 |->
            [filled[h] EXCEPT !.activeLinks = Round(filled[h].activeLinkSeconds, 60)]]

\* what the panel shows of a result: the totals of the engine, in minutes,
\* and the hourly table
ResultsPanel(res) ==
    [totalContactMinutes |-> Round(res.totalContact, 60),
     handshakes          |-> res.handshakes,
     hourlyStats         |-> HourlyStats(res.contactFlags)]

----------------------------------------------------------------------------
(* The simulation worker: requests and state machine *)

\* BeaconConfig (antennaHalfAngle is in params)
BeaconConfig(altitude, inclination, localSolarTime) ==
    [altitude |-> altitude, inclination |-> inclination,
     localSolarTime |-> localSolarTime]

\* IridiumConfig
IridiumConfig(satelliteId, altitude, inclination, showAllSatellites, allSatellites) ==
    [satelliteId |-> satelliteId, altitude |-> altitude, inclination |-> inclination,
     showAllSatellites |-> showAllSatellites, allSatellites |-> allSatellites]

\* SimulationParams
SimulationParams(beaconMode, beaconConfig, iridiumConfig, simulationDuration, timeStep) ==
    [beaconMode |-> beaconMode, beaconConfig |-> beaconConfig,
     iridiumConfig |-> iridiumConfig,
     simulationDuration |-> simulationDuration, timeStep |-> timeStep]

\* the satellites a request can list: 101 with all its elements, 102 with a
\* zero altitude and neither raan nor initial phase, 103 with all its elements
Catalogue ==
    << Satellite(101, 781, 864, Defined(0), Defined(0)),
       Satellite(102, 0, 864, Undefined, Undefined),
       Satellite(103, 781, 864, Defined(316), Defined(PI \div 2)) >>

\* the lists of up to MaxMembers satellites: a start of the catalogue, in
\* its order or in the reverse order
SatelliteLists ==
    { [k \in 1..n |-> Catalogue[k]] : n \in 0..Min(MaxMembers, Len(Catalogue)) }
    \cup { [k \in 1..n |-> Catalogue[Len(Catalogue) + 1 - k]] :
                n \in 0..Min(MaxMembers, Len(Catalogue)) }

\* the single satellite the form selects when the constellation is off
SingleSatellite(altitude) == IridiumConfig(103, altitude, 864, FALSE, << >>)

\* what OrbitForm submits: 24 hours at a step of 1 second
FormDuration == 24 * 3600

FormTimeStep == 1

\* Requests on the orbit of the beacon, with one remote satellite
OrbitRequests ==
    { SimulationParams(r[1], r[2], SingleSatellite(r[3]), FormDuration, r[4]) : r \in
        { <<"sun-synchronous", BeaconConfig(500, 0, Undefined), 781, FormTimeStep>>,
          <<"sun-synchronous", BeaconConfig(6000, 0, Defined(6)), 781, FormTimeStep>>,
          <<"non-polar", BeaconConfig(500, 200, Undefined), 781, FormTimeStep>>,
          <<"non-polar", BeaconConfig(500, 500, Undefined), 781, 60>>,
          <<"non-polar", BeaconConfig(500, 850, Undefined), 781, 60>>,
          <<"custom", BeaconConfig(500, 450, Undefined), 781, FormTimeStep>>,
          <<"custom", BeaconConfig(500, 450, Defined(6)), 781, 60>>,
          <<"custom", BeaconConfig(500, 850, Defined(0)), 781, FormTimeStep>>,
          <<"custom", BeaconConfig(0, 450, Defined(6)), 0, FormTimeStep>> } }

\* Requests on a constellation: every list with a member, the selected
\* satellite being the first of the list
ConstellationRequests ==
    { SimulationParams("custom", BeaconConfig(500, 450, Defined(6)),
                       IridiumConfig(l[1].id, l[1].altitude, l[1].inclination, TRUE, l),
                       FormDuration, FormTimeStep) :
        l \in { x \in SatelliteLists : Len(x) > 0 } }

\* Requests whose payload lacks iridiumConfig: reading
\* iridiumConfig.showAllSatellites throws a TypeError
MalformedRequests ==
    { SimulationParams(r[1], r[2], Undefined, FormDuration, FormTimeStep) : r \in
        { <<"custom", BeaconConfig(500, 450, Defined(6))>>,
          <<"non-polar", BeaconConfig(500, 200, Undefined)>> } }

Requests == OrbitRequests \cup ConstellationRequests \cup MalformedRequests

\* a message sent to the worker; payload tells whether it carries one
WorkerMessage(type, payload) == [type |-> type, payload |-> payload]

\* the messages the handler ignores: a 'start' without payload, and messages
\* of another type
OtherMessages ==
    { WorkerMessage("start", FALSE), WorkerMessage("result", TRUE),
      WorkerMessage("progress", TRUE), WorkerMessage("abort", FALSE) }

WorkerInit ==
    /\ EMERGENCY_MODE \in BOOLEAN
    /\ SPECIAL_CONFIG \in BOOLEAN
    /\ params = [beaconHalfAngle |-> 70, iridiumHalfAngle |-> 31]
    /\ \/ request \in Requests /\ inbox = << WorkerMessage("start", TRUE) >>
       \/ request = NoRequest /\ \E m \in OtherMessages : inbox = << m >>
    /\ beaconTimeline = << >>
    /\ iridiumTimeline = << >>
    /\ propagated = NotPropagated
    /\ metrics = NoMetrics
    /\ result = NoResult
    /\ rerun = FALSE
    /\ outbox = << >>
    /\ panel = NoPanel
    /\ orbits = NoOrbits
    /\ segment = NoSegment
    /\ NoEngine

\* runSimulation throws on the request: iridiumConfig is undefined where
\* the satellites are selected (simulation.worker.ts:249)
RunThrows(req) == req.iridiumConfig = Undefined

\* the message handler on a 'start' message with a payload: runSimulation,
\* then the 'result' message; or, when runSimulation throws, the 'error'
\* message of the handler's catch block.  computeLinkMetrics3D cannot throw
\* here, the two timelines having totalSteps entries each.
HandleStart ==
    /\ inbox # << >>
    /\ Head(inbox).type = "start" /\ Head(inbox).payload
    /\ request # NoRequest
    /\ metrics = NoMetrics
    /\ inbox' = Tail(inbox)
    /\ IF RunThrows(request)
       THEN LET orbit == SelectBeaconOrbit(request.beaconMode, request.beaconConfig)
            IN  /\ outbox' = outbox
                      \o (IF orbit.error = NoError THEN << >>
                          ELSE << Message("error", orbit.error, -1) >>)
                      \o << Message("error", "Cannot read properties of undefined", -1) >>
                /\ UNCHANGED <<beaconTimeline, iridiumTimeline, propagated, metrics, result>>
       ELSE \E stream \in RandomStreams :
          LET orbit == SelectBeaconOrbit(request.beaconMode, request.beaconConfig)
              sats  == SelectSatellites(request.iridiumConfig, orbit.raan)
              prop  == Propagate(request.beaconConfig, orbit, sats, stream)
              tl    == SyntheticTimeline(totalSteps, StreamDraws(stream))
              m     == computeLinkMetrics3D(prop.beaconTimeline, prop.iridiumTimeline, tl)
              res   == WorkerResult(m, request.iridiumConfig, sats, stream)
          IN  /\ beaconTimeline' = prop.beaconTimeline
              /\ iridiumTimeline' = prop.iridiumTimeline
              /\ propagated' = [beacon |-> prop.beacon, satellites |-> prop.satellites,
                                elements |-> prop.elements]
              /\ metrics' = m
              /\ result' = res
              /\ outbox' = outbox
                    \o (IF orbit.error = NoError THEN << >>
                        ELSE << Message("error", orbit.error, -1) >>)
                    \o ProgressMessages(0, totalSteps - 1)
                    \o << Message("result", res, -1) >>
    /\ UNCHANGED <<EMERGENCY_MODE, SPECIAL_CONFIG, params, request, rerun, panel>>
    /\ UNCHANGED <<orbits, segment, engineVars>>

\* the message handler on any other message: the condition
\* message.type === 'start' && message.payload is false, nothing is done
IgnoreMessage ==
    /\ inbox # << >>
    /\ ~(Head(inbox).type = "start" /\ Head(inbox).payload)
    /\ inbox' = Tail(inbox)
    /\ UNCHANGED <<EMERGENCY_MODE, SPECIAL_CONFIG, params, request, rerun, panel,
                   beaconTimeline, iridiumTimeline, propagated, metrics, result, outbox>>
    /\ UNCHANGED <<orbits, segment, engineVars>>

\* the page passes the payload of the 'result' message to ResultsPanel, which
\* renders it
RenderResults ==
    /\ panel = NoPanel
    /\ \E i \in 1..Len(outbox) :
          /\ outbox[i].type = "result"
          /\ panel' = ResultsPanel(outbox[i].payload)
    /\ UNCHANGED <<EMERGENCY_MODE, SPECIAL_CONFIG, params, request, rerun,
                   beaconTimeline, iridiumTimeline, propagated, metrics, result, outbox>>
    /\ UNCHANGED <<orbits, segment, inbox, engineVars>>

WorkerNext == HandleStart \/ IgnoreMessage \/ RenderResults

WorkerSpec == WorkerInit /\ [][WorkerNext]_vars

----------------------------------------------------------------------------
(* Vocabulary of the properties *)

\* a run has returned its metrics
Returned == metrics # NoMetrics /\ result # NoResult

\* the number of rising edges: indices i >= 1 (0-based) with a false entry
\* before a true one
RisingEdges(tl) == Cardinality({ i \in 2..Len(tl) : ~tl[i - 1] /\ tl[i] })

\* the number of maximal runs of false entries
FalseRuns(tl) == Cardinality({ i \in 1..Len(tl) : ~tl[i] /\ (i = 1 \/ tl[i - 1]) })

\* the number of true entries
TrueCount(tl) == Cardinality({ i \in 1..Len(tl) : tl[i] })

\* the value of the fraction f is the quotient a / b (b # 0)
IsQuotient(f, a, b) == f[2] # 0 /\ f[1] * b = a * f[2]

\* the steps of the run
Steps == 1..Len(beaconTimeline)

\* the beacon of step i has a boresight: it is above the Earth's radius and
\* its orientation is not degenerate
BeaconUsable(i) ==
    ~BelowHorizon(beaconTimeline[i].pos) /\ ~Degenerate(beaconTimeline[i])

\* the line of sight from the beacon b to r2 makes an angle of at most
\* acos(c) with the boresight direction bs
WithinCone(bs, from, to, c) ==
    CosGeq(dot(bs, sub(to, from)), norm2(bs) * norm2(sub(to, from)), c)

\* the beacon cone test on the forward and on the backward boresight
BeaconConeForward(b, r2) == WithinCone(velDir(b), b.pos, r2, COS_BEACON)

BeaconConeBackward(b, r2) == WithinCone(neg(velDir(b)), b.pos, r2, COS_BEACON)

\* the remote cone test on the nadir boresight -r2/|r2|, with the line of
\* sight from the remote to the beacon
NadirCone(b, r2, c) == WithinCone(neg(r2), r2, b.pos, c)

\* the line of sight from b to r2 is exactly along the forward or the
\* backward boresight
ExactlyAligned(b, r2) ==
    /\ r2 # b.pos
    /\ cross(velDir(b), sub(r2, b.pos)) = <<0, 0, 0>>

\* the pair of step i when the step has exactly one remote
SinglePair(i) == Len(iridiumTimeline[i]) = 1

----------------------------------------------------------------------------
(* Properties *)

\* C1: in every returned timeline, handshakeCount is the number of rising
\* edges at indices i >= 1; a timeline that starts true counts no handshake
\* at index 0.
C1_HandshakeCountIsRisingEdges ==
    Returned => metrics.handshakeCount = RisingEdges(metrics.timeline)

\* C2: in every returned timeline, outageCount is the number of maximal runs
\* of false entries (a run starting at index 0 counts), also when steps are
\* false because of a degenerate beacon orientation or a beacon below the
\* Earth's radius.
C2_OutageCountIsFalseRuns ==
    Returned => metrics.outageCount = FalseRuns(metrics.timeline)

\* C3: contact steps plus outage steps is the step count: the number of true
\* entries plus outageDuration is timeline.length, and totalContact +
\* totalOutage is the step count times the step seconds.
C3_ContactPlusOutageIsStepCount ==
    Returned =>
        /\ TrueCount(metrics.timeline) + metrics.outageDuration = Len(metrics.timeline)
        /\ result.totalContact + result.totalOutage = Len(metrics.timeline) * actualTimeStep

\* C4: the reported average outage is total outage / outage count when the
\* outage count is > 0, and 0 when it is 0, without a division by zero; a
\* timeline of length 0 yields handshakeCount = outageCount = outageDuration
\* = 0 and average 0.
C4_AverageOutage ==
    Returned =>
        /\ result.outages > 0 =>
              IsQuotient(result.avgOutage, result.totalOutage, result.outages)
        /\ result.outages = 0 => IsQuotient(result.avgOutage, 0, 1)
        /\ Len(metrics.timeline) = 0 =>
              /\ metrics.handshakeCount = 0
              /\ metrics.outageCount = 0
              /\ metrics.outageDuration = 0
              /\ IsQuotient(result.avgOutage, 0, 1)

\* C4, witness: a run over a non-empty timeline without any outage, where the
\* average would divide by zero
C4_Witness ==
    Returned /\ Len(metrics.timeline) > 0 /\ result.outages = 0

\* C5: a second run on the same inputs returns the timeline and the
\* statistics of the first.
C5_Deterministic ==
    [][Returned => (metrics' = metrics /\ result' = result)]_vars

\* C6: timeline[i] is true only if at step i some remote passes the
\* Earth-occlusion and antenna-cone tests against the beacon of step i; if no
\* remote passes at any step, the timeline is all false and handshakeCount
\* is 0.
C6_ContactFromGeometry ==
    Returned =>
        /\ \A i \in Steps :
              metrics.timeline[i] =>
                  BeaconUsable(i) /\ AnyLinked(beaconTimeline[i], iridiumTimeline[i])
        /\ (\A i \in Steps : ~AnyLinked(beaconTimeline[i], iridiumTimeline[i])) =>
              metrics.handshakeCount = 0

\* C7: a (beacon, remote) pair is linked at a step iff the path is not
\* blocked by the Earth, the beacon cone test passes on the forward or on the
\* backward boresight, and the remote (nadir) cone test passes.  Stated of
\* the steps where the pair test runs: the geometric path, a usable beacon,
\* one remote, above the Earth's radius.
C7_LinkedIffThreeTests ==
    (Returned /\ ~EMERGENCY_MODE) =>
        \A i \in Steps :
            (BeaconUsable(i) /\ SinglePair(i) /\ ~BelowHorizon(iridiumTimeline[i][1])) =>
                LET b  == beaconTimeline[i]
                    r2 == iridiumTimeline[i][1]
                IN  metrics.timeline[i] <=>
                        /\ ~EarthBlocks(b.pos, r2)
                        /\ BeaconConeForward(b, r2) \/ BeaconConeBackward(b, r2)
                        /\ NadirCone(b, r2, COS_IRIDIUM)

\* C8: whenever the segment from the beacon to the remote passes closer to
\* the Earth's center than the Earth's radius, the pair is not linked at that
\* step: a step whose remotes are all occluded is not a contact step.
C8_OccludedNeverLinked ==
    Returned =>
        \A i \in Steps :
            (\A k \in 1..Len(iridiumTimeline[i]) :
                EarthBlocks(beaconTimeline[i].pos, iridiumTimeline[i][k]))
            => ~metrics.timeline[i]

\* C9: the remote cone test is the nadir test dot(losReverse, nadir) >=
\* cos(remoteHalfAngle), so a remote straight above the beacon, on the same
\* radial line, passes it.  Stated of the steps of the geometric path where
\* the pair test runs and the other tests pass.
C9_RemoteConeIsNadirCone ==
    (Returned /\ ~EMERGENCY_MODE) =>
        \A i \in Steps :
            LET b  == beaconTimeline[i]
                r2 == iridiumTimeline[i][1]
            IN  ( /\ BeaconUsable(i) /\ SinglePair(i)
                  /\ ~BelowHorizon(r2)
                  /\ ~EarthBlocks(b.pos, r2)
                  /\ okBeacon(b, r2) )
                => (metrics.timeline[i] <=> NadirCone(b, r2, COS_IRIDIUM))

\* C10: the cone thresholds are the cosines of the caller-supplied
\* half-angles: with a caller-supplied half-angle of 0 (cosine 1), a pair
\* whose alignment is not exact is not linked.
C10_CallerHalfAnglesDecide ==
    (Returned /\ ~EMERGENCY_MODE) =>
        \A i \in Steps :
            LET b  == beaconTimeline[i]
                r2 == iridiumTimeline[i][1]
            IN  ( /\ BeaconUsable(i) /\ SinglePair(i)
                  /\ params.beaconHalfAngle = 0
                  /\ ~ExactlyAligned(b, r2) )
                => ~metrics.timeline[i]

\* every remote of step i is at the beacon's own position: the line of sight
\* has length zero
Coincident(i) ==
    \A k \in 1..Len(iridiumTimeline[i]) : iridiumTimeline[i][k] = beaconTimeline[i].pos

\* step i is one of the two numeric degeneracies
DegenerateStep(i) ==
    ~BelowHorizon(beaconTimeline[i].pos) /\ (Coincident(i) \/ Degenerate(beaconTimeline[i]))

\* C11: numeric degeneracy is handled per step.  A step whose remotes
\* coincide with the beacon, or whose beacon orientation is zero after
\* projection, is recorded as not linked; the run still returns a complete
\* result (one entry per step), and the steps after a degenerate one are
\* evaluated normally: a usable beacon is linked iff some remote passes the
\* pair test.
C11_DegeneracyHandledPerStep ==
    Returned =>
        /\ Len(metrics.timeline) = Len(beaconTimeline)
        /\ Len(result.contactFlags) = Len(beaconTimeline)
        /\ \A i \in Steps : DegenerateStep(i) => ~metrics.timeline[i]
        /\ \A i, j \in Steps :
              (DegenerateStep(i) /\ i < j /\ BeaconUsable(j)) =>
                  (metrics.timeline[j] <=> AnyLinked(beaconTimeline[j], iridiumTimeline[j]))

----------------------------------------------------------------------------
(* Vocabulary of the properties of the worker *)

\* the worker has handled the 'start' request
Handled == request # NoRequest /\ metrics # NoMetrics

\* the positions of the messages of a type in the outbox
Posted(type) == { i \in 1..Len(outbox) : outbox[i].type = type }

\* the request was rejected: an error was posted and no result
Rejected == Posted("error") # {} /\ Posted("result") = {}

\* the altitude the caller supplied for the k-th propagated satellite
CallerAltitude(k) ==
    IF request.iridiumConfig.showAllSatellites
       /\ Len(request.iridiumConfig.allSatellites) > 0
    THEN request.iridiumConfig.allSatellites[k].altitude
    ELSE request.iridiumConfig.altitude

\* an altitude brought into the range [200, 1000] the worker accepts
ClampedAltitude(altitude) == Max(200, Min(1000, altitude))

\* the positions of the propagated list
Members == 1..Len(propagated.satellites)

\* the steps of the worker's run
WorkerSteps == 1..Len(propagated.elements)

\* member k of the propagated list is itself linked to the beacon at step i
\* (1-based): the beacon has a boresight and the pair passes the link test
MemberLinked(i, k) ==
    BeaconUsable(i) /\ PairLinked(beaconTimeline[i], iridiumTimeline[i][k])

\* the request is in constellation mode: the whole list is simulated
Constellation ==
    /\ request.iridiumConfig.showAllSatellites
    /\ Len(request.iridiumConfig.allSatellites) > 0

\* the ids of the members of the propagated list
MemberIds == { propagated.satellites[k].id : k \in Members }

\* the position in the list of the member the caller designated
DesignatedMember ==
    CHOOSE k \in Members : propagated.satellites[k].id = request.iridiumConfig.satelliteId

\* the number of steps of the run: the length of the timeline it returned
StepCount == Len(result.contactFlags)

\* the steps of the run (0-based) that are multiples of floor(StepCount / 10)
Checkpoints ==
    { s \in 0..(StepCount - 1) : s % (StepCount \div 10) = 0 }

\* the minute indices (0-based) of hour h
HourMinutes(h) == (60 * h)..(60 * h + 59)

\* minute i (0-based) of the returned timeline is a 0 -> 1 transition
Transition(i) ==
    /\ i >= 1
    /\ i < Len(result.contactFlags)
    /\ result.contactFlags[i] = 0
    /\ result.contactFlags[i + 1] = 1

\* minute i (0-based) of the returned timeline is a contact minute
ContactMinute(i) == i < Len(result.contactFlags) /\ result.contactFlags[i + 1] = 1

\* the sum of f[0], ..., f[h]
RECURSIVE SumTo(_, _)
SumTo(f, h) == IF h < 0 THEN 0 ELSE f[h] + SumTo(f, h - 1)

----------------------------------------------------------------------------
(* Properties of the worker *)

\* C12: in non-polar mode a beacon inclination outside [30 deg, 98 deg] is
\* rejected: an error is posted, no result is produced, and nothing is
\* propagated (in particular not with another inclination).
C12_NonPolarInclinationRejected ==
    ( /\ Handled
      /\ request.beaconMode = "non-polar"
      /\ \/ request.beaconConfig.inclination < 300
         \/ request.beaconConfig.inclination > 980 )
    => (Rejected /\ propagated = NotPropagated)

\* C13: a zero or negative altitude, of the beacon or of a remote member, is
\* a configuration error: the run is rejected, or the value is clamped (the
\* beacon to a positive altitude, a member into the accepted range) and the
\* clamped value is the one propagated at every step.
C13_NonPositiveAltitudeIsAnError ==
    Handled =>
        \/ Rejected
        \/ /\ request.beaconConfig.altitude <= 0 => propagated.beacon.altitude > 0
           /\ \A k \in Members :
                 CallerAltitude(k) <= 0 =>
                     \A i \in WorkerSteps :
                         propagated.elements[i][k].altitude
                             = ClampedAltitude(CallerAltitude(k))

\* C14: in custom mode the beacon is propagated with exactly the
\* caller-supplied inclination, and with RAAN = 15 deg x LST when a local
\* solar time is supplied and 0 otherwise.
C14_CustomModeUsesCallerElements ==
    (Handled /\ request.beaconMode = "custom") =>
        /\ propagated.beacon.inclination = deg2rad(request.beaconConfig.inclination)
        /\ propagated.beacon.raan =
              IF request.beaconConfig.localSolarTime.defined
              THEN deg2rad(15 * request.beaconConfig.localSolarTime.value * 10)
              ELSE 0

\* C15: the returned contact timeline has one entry per time step of the
\* caller-supplied horizon: its length is simulationDuration / timeStep.
C15_TimelineLengthIsStepCount ==
    Handled =>
        /\ Len(result.contactFlags) = request.simulationDuration \div request.timeStep
        /\ Len(metrics.timeline) = request.simulationDuration \div request.timeStep

\* C16: orbital elements are immutable during a run: for every remote
\* member, the altitude, inclination, RAAN and phase offset it is propagated
\* with are the same at every step.
C16_ElementsImmutable ==
    Handled =>
        \A k \in Members : \A i, j \in WorkerSteps :
            propagated.elements[i][k] = propagated.elements[j][k]

\* C17: in constellation mode the per-satellite timeline of member m has a 1
\* at step i iff member m itself is linked to the beacon at step i, whatever
\* the other members do.
C17_PerSatelliteTimelineIsOwnLink ==
    (Handled /\ result.allContactData.defined) =>
        \A k \in Members : \A i \in WorkerSteps :
            (result.allContactData.data[propagated.satellites[k].id][i] = 1)
                <=> MemberLinked(i, k)

\* C18: in constellation mode the primary timeline is the timeline of the
\* designated member (its entry at step i is 1 iff that member is linked at
\* step i), and the per-satellite map holds one timeline, of the length of
\* the run, for every member of the list.
C18_PrimaryIsDesignatedMember ==
    (Handled /\ Constellation) =>
        /\ \A i \in WorkerSteps :
               (result.contactFlags[i] = 1) <=> MemberLinked(i, DesignatedMember)
        /\ result.allContactData.defined
        /\ DOMAIN result.allContactData.data = MemberIds
        /\ \A id \in MemberIds :
               Len(result.allContactData.data[id]) = Len(result.contactFlags)

\* C19: within one run the progress messages are posted exactly at the steps
\* that are multiples of floor(stepCount / 10), once each and in the order of
\* the steps; their payloads are percentages that increase from one message
\* to the next; every progress message precedes the result message, which is
\* the last message, is posted once and carries the result of the run.
C19_ProgressAtEvenCheckpoints ==
    Handled =>
        /\ StepCount \div 10 > 0
        /\ { outbox[i].step : i \in Posted("progress") } = Checkpoints
        /\ Cardinality(Posted("progress")) = Cardinality(Checkpoints)
        /\ \A i, j \in Posted("progress") :
               i < j => /\ outbox[i].step < outbox[j].step
                        /\ outbox[i].payload < outbox[j].payload
        /\ \A i \in Posted("progress") : outbox[i].payload \in 0..100
        /\ Posted("result") = {Len(outbox)}
        /\ \A i \in Posted("progress") : i < Len(outbox)
        /\ outbox[Len(outbox)].payload = result
        /\ Len(metrics.timeline) = StepCount

\* C19 witness: a run has posted its ten progress messages, the last of them
\* at step 1296 with payload 90, and then its result
C19_Witness ==
    /\ Handled
    /\ Cardinality(Posted("progress")) = 10
    /\ \E i \in Posted("progress") : outbox[i].step = 1296 /\ outbox[i].payload = 90
    /\ Posted("result") # {}

\* C20: the hourly summary of the results panel is consistent with the
\* timeline: for each hour h of the 24 the handshake count shown is the
\* number of 0 -> 1 transitions at the minutes 60h .. 60h+59 and the
\* active-link minutes is the number of contact minutes of the hour; the 24
\* handshake counts sum to the handshake total of the engine and the 24
\* active-link minutes sum to the total contact minutes.
C20_HourlySummaryConsistent ==
    panel # NoPanel =>
        /\ \A h \in 0..23 :
               /\ panel.hourlyStats[h].handshakes
                     = Cardinality({ i \in HourMinutes(h) : Transition(i) })
               /\ panel.hourlyStats[h].activeLinks
                     = Cardinality({ i \in HourMinutes(h) : ContactMinute(i) })
        /\ SumTo([h \in 0..23 |-> panel.hourlyStats[h].handshakes], 23)
              = result.handshakes
        /\ SumTo([h \in 0..23 |-> panel.hourlyStats[h].activeLinks], 23) * 60
              = result.totalContact
        /\ SumTo([h \in 0..23 |-> panel.hourlyStats[h].activeLinks], 23)
              = panel.totalContactMinutes

----------------------------------------------------------------------------
(* The propagator (simulation.worker.ts:83-152)                            *)
(*                                                                         *)
(* Times and periods are whole seconds.  Angles are in the unit of the     *)
(* worker's radians, pi/180000.  Math.cos and Math.sin are exact, in       *)
(* fifths, on the grid of the angles k x 90 deg, k x 90 deg + 36.870 deg   *)
(* and k x 90 deg + 53.130 deg (the angles of the 3-4-5 triangle); the     *)
(* propagator is run at the instants at which the anomaly is on the grid.  *)
(* A position is a triple in units of 1/125 km, a plane normal a triple in *)
(* units of 1/25.                                                          *)

\* the largest r with r * r <= n, between lo and hi
RECURSIVE Isqrt(_, _, _)
Isqrt(n, lo, hi) ==
    IF lo >= hi THEN lo
    ELSE LET mid == (lo + hi + 1) \div 2
         IN  IF mid * mid <= n THEN Isqrt(n, mid, hi) ELSE Isqrt(n, lo, mid - 1)

\* Math.sqrt(n), truncated (n < 2^31)
sqrt(n) == Isqrt(n, 0, 46340)

\* orbitalPeriod(a) = 2 pi sqrt(a^3 / MU), MU = 398600.4418: a sqrt(a / MU)
\* times 2 pi, in whole seconds (within 1 s of the double), with
\* 10^11 / MU = 250878 and 2 pi / 10^5.5 = 19869 / 10^9
orbitalPeriod(a) == (((a * sqrt(a * 250878)) \div 10000) * 19869) \div 100000

\* const iridiumOrbitalPeriod = 60 * 60
iridiumOrbitalPeriod == 60 * 60

\* const isIridiumLike = altitude >= 770 && altitude <= 810
isIridiumLike(altitude) == altitude >= 770 /\ altitude <= 810

\* const T of positionInOrbit
T(altitude) ==
    IF isIridiumLike(altitude) THEN iridiumOrbitalPeriod
    ELSE Min(orbitalPeriod(EARTH_RADIUS + altitude), 90 * 60)

\* n * t for n = 2 pi / period: the angle 2 pi t / period, truncated
MeanMotionAngle(t, period) ==
    ((3600 * t) \div period) * 100 + (((3600 * t) % period) * 100) \div period

\* const theta = n * t + phaseOffset
theta(t, altitude, phaseOffset) == MeanMotionAngle(t, T(altitude)) + phaseOffset

\* the angle is on the grid
OnGrid(angle) == ((angle % (2 * PI)) % (PI \div 2)) \in {0, 36870, 53130}

\* <<Math.cos, Math.sin>> of an angle of the first quarter turn, in fifths
FirstQuarter(angle) ==
    CASE angle = 0 -> <<5, 0>>
      [] angle = 36870 -> <<4, 3>>
      [] angle = 53130 -> <<3, 4>>

\* <<Math.cos, Math.sin>> of an angle of the grid, in fifths
CosSin(angle) ==
    LET turn    == angle % (2 * PI)
        quarter == turn \div (PI \div 2)
        cs      == FirstQuarter(turn % (PI \div 2))
    IN  CASE quarter = 0 -> cs
          [] quarter = 1 -> <<-cs[2], cs[1]>>
          [] quarter = 2 -> <<-cs[1], -cs[2]>>
          [] quarter = 3 -> <<cs[2], -cs[1]>>

\* Math.cos(angle), in fifths
cos(angle) == CosSin(angle)[1]

\* Math.sin(angle), in fifths
sin(angle) == CosSin(angle)[2]

\* positionInOrbit(t, altitude, inclination, raan, phaseOffset), in 1/125 km
positionInOrbit(t, altitude, inclination, raan, phaseOffset) ==
    LET a          == EARTH_RADIUS + altitude
        th         == theta(t, altitude, phaseOffset)
        x_plane    == a * cos(th)
        y_plane    == a * sin(th)
        y_inclined == y_plane * cos(inclination)
        z_inclined == y_plane * sin(inclination)
        x_final    == 5 * x_plane * cos(raan) - y_inclined * sin(raan)
        y_final    == 5 * x_plane * sin(raan) + y_inclined * cos(raan)
    IN  <<x_final, y_final, 5 * z_inclined>>

\* a plane normal with the sign of its y component changed
calculatePlaneNormal_Mirrored(inclination, raan) ==
    << sin(raan) * sin(inclination), cos(raan) * sin(inclination), 5 * cos(inclination) >>

\* calculatePlaneNormal(inclination, raan), in 1/25: n divided by its
\* magnitude
calculatePlaneNormal(inclination, raan) ==
    LET n == << sin(raan) * sin(inclination),
                (-cos(raan)) * sin(inclination),
                5 * cos(inclination) >>
        magnitude == sqrt(dot(n, n))
    IN  << (n[1] * 25) \div magnitude, (n[2] * 25) \div magnitude,
           (n[3] * 25) \div magnitude >>

----------------------------------------------------------------------------
(* The propagator: inputs and state machine *)

\* the number of steps of 900 s (the worker's step) the propagator is run for
MaxTimeSteps == 6

\* the instants of the steps: t = step * actualTimeStep * timeAccelerationFactor
Times == { step * actualTimeStep * 15 : step \in 0..MaxTimeSteps }

\* altitudes, in km: below the 90 minutes cap, above it, and Iridium-like
Altitudes == {200, 500, 600, 780, 800}

\* the elements of a satellite
Elements(altitude, inclination, raan, phaseOffset) ==
    [altitude |-> altitude, inclination |-> inclination, raan |-> raan,
     phaseOffset |-> phaseOffset]

\* the first satellite: inclinations, RAANs and phases of the grid
FirstElements ==
    { Elements(alt, inc, raan, ph) :
        alt \in Altitudes, inc \in {0, 53130, 90000, 143130},
        raan \in {0, 36870, 90000, 233130}, ph \in {0, 53130, 180000} }

\* the second satellite
SecondElements ==
    { Elements(alt, 126870, 306870, ph) : alt \in Altitudes, ph \in {0, 90000} }

\* what the propagator computes for a satellite at time t
OrbitState(t, e) ==
    [T           |-> T(e.altitude),
     theta       |-> theta(t, e.altitude, e.phaseOffset),
     position    |-> positionInOrbit(t, e.altitude, e.inclination, e.raan, e.phaseOffset),
     planeNormal |-> calculatePlaneNormal(e.inclination, e.raan)]

OrbitInit ==
    /\ \E e1 \in FirstElements, e2 \in SecondElements :
          orbits = [elements |-> <<e1, e2>>, t |-> -1, states |-> << >>]
    /\ EMERGENCY_MODE = TRUE
    /\ params = [beaconHalfAngle |-> 70, iridiumHalfAngle |-> 31]
    /\ beaconTimeline = << >>
    /\ iridiumTimeline = << >>
    /\ metrics = NoMetrics
    /\ result = NoResult
    /\ rerun = FALSE
    /\ SPECIAL_CONFIG = TRUE
    /\ request = NoRequest
    /\ propagated = NotPropagated
    /\ outbox = << >>
    /\ panel = NoPanel
    /\ segment = NoSegment
    /\ inbox = << >>
    /\ NoEngine

\* the two satellites are propagated to a later instant
PropagateOrbits ==
    /\ orbits # NoOrbits
    /\ \E t \in Times :
          /\ t > orbits.t
          /\ \A k \in 1..2 :
                OnGrid(theta(t, orbits.elements[k].altitude, orbits.elements[k].phaseOffset))
          /\ orbits' = [orbits EXCEPT
                           !.t = t,
                           !.states = [k \in 1..2 |-> OrbitState(t, orbits.elements[k])]]
    /\ UNCHANGED <<linkVars, workerVars, segment, engineVars>>

OrbitNext == PropagateOrbits

OrbitSpec == OrbitInit /\ [][OrbitNext]_vars

----------------------------------------------------------------------------
(* Properties of the propagator *)

\* the propagator has been run
Propagated == orbits # NoOrbits /\ orbits.t >= 0

\* C21: the period the propagator uses is Kepler's, 2 pi sqrt(a^3 / mu) with
\* a = Earth radius + altitude, for every altitude; the anomaly at time t is
\* n t + phaseOffset with n = 2 pi / T; two satellites at different
\* altitudes do not share a period.
C21_PeriodIsKepler ==
    Propagated =>
        /\ \A k \in 1..2 :
              LET e == orbits.elements[k]
                  kepler == orbitalPeriod(EARTH_RADIUS + e.altitude)
              IN  /\ orbits.states[k].T = kepler
                  /\ orbits.states[k].theta
                        = MeanMotionAngle(orbits.t, kepler) + e.phaseOffset
        /\ orbits.elements[1].altitude # orbits.elements[2].altitude
              => orbits.states[1].T # orbits.states[2].T

\* C22: at every time t the plane normal calculatePlaneNormal returns is
\* orthogonal to the position positionInOrbit returns for the same
\* inclination and RAAN (their dot product is 0), and it is a unit vector.
C22_PlaneNormalOrthogonal ==
    Propagated =>
        \A k \in 1..2 :
            /\ dot(orbits.states[k].position, orbits.states[k].planeNormal) = 0
            /\ norm2(orbits.states[k].planeNormal) = 25 * 25

\* C22 witness: a satellite propagated to a time t > 0 on an orbit that is
\* inclined and turned, its position and its plane normal having no zero
\* component
C22_Witness ==
    /\ Propagated
    /\ orbits.t > 0
    /\ \E k \in 1..2 : \A c \in 1..3 :
          /\ orbits.states[k].position[c] # 0
          /\ orbits.states[k].planeNormal[c] # 0

----------------------------------------------------------------------------
(* segmentMinDistance (linkMath3D.ts:37-55) on pairs of points *)

\* the largest coordinate of a point
MaxCoordinate == 2

\* the points of the grid: a few layers of the x-y plane
Points ==
    { <<x, y, z>> : x \in (-MaxCoordinate)..MaxCoordinate,
                    y \in (-MaxCoordinate)..MaxCoordinate, z \in 0..1 }

SegmentInit ==
    /\ \E r1 \in Points, r2 \in Points :
          segment = [r1 |-> r1, r2 |-> r2, measured |-> FALSE]
    /\ EMERGENCY_MODE = TRUE
    /\ params = [beaconHalfAngle |-> 70, iridiumHalfAngle |-> 31]
    /\ beaconTimeline = << >>
    /\ iridiumTimeline = << >>
    /\ metrics = NoMetrics
    /\ result = NoResult
    /\ rerun = FALSE
    /\ SPECIAL_CONFIG = TRUE
    /\ request = NoRequest
    /\ propagated = NotPropagated
    /\ outbox = << >>
    /\ panel = NoPanel
    /\ orbits = NoOrbits
    /\ inbox = << >>
    /\ NoEngine

\* segmentMinDistance is called on the two points, in both orders
MeasureSegment ==
    /\ segment # NoSegment
    /\ ~segment.measured
    /\ segment' = [r1 |-> segment.r1, r2 |-> segment.r2, measured |-> TRUE,
                   distance |-> segmentMinDistance(segment.r1, segment.r2),
                   reverse  |-> segmentMinDistance(segment.r2, segment.r1)]
    /\ UNCHANGED <<linkVars, workerVars, orbits, engineVars>>

SegmentNext == MeasureSegment

SegmentSpec == SegmentInit /\ [][SegmentNext]_vars

----------------------------------------------------------------------------
(* Properties of segmentMinDistance *)

\* the fractions f and g (of positive denominators) have the same value
SameFraction(f, g) == f[1] * g[2] = g[1] * f[2]

\* the fraction f is at most the fraction g
AtMost(f, g) == f[1] * g[2] <= g[1] * f[2]

\* the number of parts the segment is cut in to sample its points
Parts == 12

\* the squared distance from the origin to the point r1 + (k / Parts) (r2 - r1)
PointOfSegment(r1, r2, k) ==
    << norm2(<< Parts * r1[1] + k * (r2[1] - r1[1]),
                Parts * r1[2] + k * (r2[2] - r1[2]),
                Parts * r1[3] + k * (r2[3] - r1[3]) >>), Parts * Parts >>

\* C23: segmentMinDistance(r1, r2), squared, is the squared norm of r1 when
\* r1 = r2; the squared distance to the line when the projection parameter
\* t = -(r1.v)/(v.v) is in [0, 1]; the smaller squared norm of r1 and r2
\* otherwise.  It is the same for (r2, r1), it is at most the squared norm
\* of either end, and no point of the segment is nearer to the origin.
C23_SegmentMinDistance ==
    (segment # NoSegment /\ segment.measured) =>
        LET r1 == segment.r1
            r2 == segment.r2
            v  == sub(r2, r1)
            d  == segment.distance
        IN  /\ d[2] > 0
            /\ r1 = r2 => SameFraction(d, <<norm2(r1), 1>>)
            /\ (r1 # r2 /\ 0 <= -dot(r1, v) /\ -dot(r1, v) <= dot(v, v))
                  => SameFraction(d, <<norm2(cross(r1, v)), dot(v, v)>>)
            /\ (r1 # r2 /\ ~(0 <= -dot(r1, v) /\ -dot(r1, v) <= dot(v, v)))
                  => SameFraction(d, <<Min(norm2(r1), norm2(r2)), 1>>)
            /\ SameFraction(d, segment.reverse)
            /\ AtMost(d, <<Min(norm2(r1), norm2(r2)), 1>>)
            /\ \A k \in 0..Parts : AtMost(d, PointOfSegment(r1, r2, k))

\* C23 witness: the distance of a segment whose nearest point to the origin
\* is strictly inside it, nearer than both ends
C23_Witness ==
    /\ segment # NoSegment
    /\ segment.measured
    /\ LET v == sub(segment.r2, segment.r1)
       IN  0 < -dot(segment.r1, v) /\ -dot(segment.r1, v) < dot(v, v)
    /\ ~AtMost(<<Min(norm2(segment.r1), norm2(segment.r2)), 1>>, segment.distance)

----------------------------------------------------------------------------
(* Further properties of computeLinkMetrics3D and of the worker *)

\* C29: in every result of computeLinkMetrics3D the outage count is the
\* handshake count or one more: one more exactly when the timeline is not
\* empty and its last entry is false.
C29_CountsTiedByShape ==
    Returned =>
        LET tl == metrics.timeline
            endsFalse == Len(tl) > 0 /\ ~tl[Len(tl)]
        IN  /\ metrics.handshakeCount <= metrics.outageCount
            /\ metrics.outageCount <= metrics.handshakeCount + 1
            /\ (metrics.outageCount = metrics.handshakeCount + 1) <=> endsFalse

\* C30: in constellation mode every per-satellite timeline is contained in
\* the primary timeline: a 1 of member m at step i implies a 1 of
\* contactFlags at step i; and it has the length of the primary timeline.
C30_PerSatelliteWithinPrimary ==
    (Handled /\ result.allContactData.defined) =>
        \A id \in DOMAIN result.allContactData.data :
            /\ Len(result.allContactData.data[id]) = Len(result.contactFlags)
            /\ \A i \in 1..Len(result.contactFlags) :
                  result.allContactData.data[id][i] = 1 => result.contactFlags[i] = 1

\* C30 witness: a constellation run in which a member has a 1 at a step, and
\* a 0 at a step at which the primary timeline has a 1
C30_Witness ==
    /\ Handled
    /\ result.allContactData.defined
    /\ \E id \in DOMAIN result.allContactData.data :
          /\ \E i \in 1..Len(result.contactFlags) : result.allContactData.data[id][i] = 1
          /\ \E i \in 1..Len(result.contactFlags) :
                result.allContactData.data[id][i] = 0 /\ result.contactFlags[i] = 1

\* the worker has handled the message it was sent
Consumed == inbox = << >>

\* the terminal messages posted: 'result' and 'error'
Terminal == Posted("result") \cup Posted("error")

\* C26: an exception thrown inside a run (the worker posts 'error' messages
\* from its catch blocks only) is turned into a single 'error' message, and
\* no 'result' message is posted for that run.
C26_ExceptionIsOneError ==
    (Consumed /\ Posted("error") # {}) =>
        /\ Cardinality(Posted("error")) = 1
        /\ Posted("result") = {}

\* C27: for a 'start' message with a payload the worker posts exactly one
\* terminal message, 'result' or 'error' and not both, after all the
\* 'progress' messages of the run; for any other message it posts nothing.
C27_WorkerProtocol ==
    Consumed =>
        /\ request # NoRequest =>
              /\ Cardinality(Terminal) = 1
              /\ \A i \in Posted("progress") : \A j \in Terminal : i < j
        /\ request = NoRequest => outbox = << >>

----------------------------------------------------------------------------
(* The SimulationEngine (simulate.ts)                                      *)
(*                                                                         *)
(* A Worker is a record: whether it was terminated, the promise its        *)
(* onmessage and onerror handlers settle (0: no handler), the messages it  *)
(* will still post, and the messages it has posted that the page has not   *)
(* received yet.  Worker.terminate() stops the worker and discards the     *)
(* messages not yet received.  A message is tagged with the run (the       *)
(* promise) whose 'start' message made the worker post it.  A promise      *)
(* records its state, the number of calls of resolve or reject, and        *)
(* whether its run was given up by abortSimulation or dispose.             *)

\* the number of calls of runSimulation
MaxCalls == 3

\* new Worker(...)
NewWorker == [terminated |-> FALSE, handlers |-> 0, toPost |-> << >>, posted |-> << >>]

\* a terminate() that leaves the worker running
terminate_Nothing(ws, w) == ws

\* this.worker.terminate()
terminate(ws, w) ==
    [ws EXCEPT ![w] = [@ EXCEPT !.terminated = TRUE, !.toPost = << >>, !.posted = << >>]]

\* initWorker(): the Workers after it; this.worker is then the last of them
initWorker(ws, w) == Append(IF w # 0 THEN terminate(ws, w) ELSE ws, NewWorker)

\* new Promise(...)
NewPromise == [state |-> "pending", settled |-> 0, abandoned |-> FALSE]

\* resolve(...) or reject(...): the first call settles the promise
Settle(ps, p, state) ==
    [ps EXCEPT ![p] = [@ EXCEPT !.state = IF @ = "pending" THEN state ELSE @,
                                !.settled = @ + 1]]

\* the run of promise p is given up
GiveUp(ps, p) ==
    IF p = 0 THEN ps ELSE [ps EXCEPT ![p] = [@ EXCEPT !.abandoned = TRUE]]

\* what a worker posts for the 'start' message of a run: progress and the
\* result; the error of the handler's catch block; or, when SPECIAL_CONFIG
\* is off, the error of runSimulation's catch block, then progress and the
\* result
Scripts(run) ==
    LET msg(type) == [type |-> type, run |-> run]
    IN  { << msg("progress"), msg("result") >>, << msg("error") >> }
        \cup (IF SPECIAL_CONFIG THEN {}
              ELSE { << msg("error"), msg("progress"), msg("result") >> })

\* the promise of the run in flight on this.worker
CurrentRun == IF isRunning /\ worker # 0 THEN workers[worker].handlers ELSE 0

\* runSimulation past the isRunning test: the promise's executor
StartRun ==
    LET ws == IF worker = 0 THEN initWorker(workers, worker) ELSE workers
        w  == IF worker = 0 THEN Len(ws) ELSE worker
        p  == Len(promises) + 1
    IN  /\ isRunning' = TRUE
        /\ promises' = Append(promises, NewPromise)
        /\ worker' = w
        /\ \E script \in Scripts(p) :
              workers' = [ws EXCEPT ![w] = [@ EXCEPT !.handlers = p,
                                                     !.toPost = @ \o script]]
        /\ calls' = Append(calls, "accepted")

\* a runSimulation without the isRunning test
RunSimulation_Unguarded ==
    /\ Len(calls) < MaxCalls
    /\ StartRun
    /\ UNCHANGED <<linkVars, workerVars, geometryVars>>

\* runSimulation(params)
RunSimulation ==
    /\ Len(calls) < MaxCalls
    /\ IF isRunning
       THEN /\ calls' = Append(calls, "thrown")
            /\ UNCHANGED <<isRunning, worker, workers, promises>>
       ELSE StartRun
    /\ UNCHANGED <<linkVars, workerVars, geometryVars>>

\* a running worker posts its next message
WorkerPost ==
    /\ \E w \in 1..Len(workers) :
          /\ ~workers[w].terminated
          /\ workers[w].toPost # << >>
          /\ workers' = [workers EXCEPT ![w] =
                            [@ EXCEPT !.toPost = Tail(@),
                                      !.posted = Append(@, Head(workers[w].toPost))]]
    /\ UNCHANGED <<isRunning, worker, promises, calls>>
    /\ UNCHANGED <<linkVars, workerVars, geometryVars>>

\* the page receives a message of a worker: its onmessage handler
Deliver ==
    /\ \E w \in 1..Len(workers) :
          /\ ~workers[w].terminated
          /\ workers[w].posted # << >>
          /\ LET message  == Head(workers[w].posted)
                 p        == workers[w].handlers
                 received == [workers EXCEPT ![w] = [@ EXCEPT !.posted = Tail(@)]]
             IN  IF p = 0 \/ message.type = "progress"
                 THEN /\ workers' = received
                      /\ UNCHANGED <<isRunning, worker, promises>>
                 ELSE IF message.type = "result"
                 THEN /\ isRunning' = FALSE
                      /\ promises' = Settle(promises, p, "resolved")
                      /\ workers' = received
                      /\ UNCHANGED worker
                 ELSE \* 'error'
                      /\ isRunning' = FALSE
                      /\ promises' = Settle(promises, p, "rejected")
                      /\ workers' = initWorker(received, worker)
                      /\ worker' = Len(workers')
    /\ UNCHANGED calls
    /\ UNCHANGED <<linkVars, workerVars, geometryVars>>

\* a running worker fails: its onerror handler
WorkerError ==
    /\ \E w \in 1..Len(workers) :
          /\ ~workers[w].terminated
          /\ workers[w].toPost # << >>
          /\ workers[w].handlers # 0
          /\ isRunning' = FALSE
          /\ promises' = Settle(promises, workers[w].handlers, "rejected")
          /\ workers' = initWorker(workers, worker)
          /\ worker' = Len(workers')
    /\ UNCHANGED calls
    /\ UNCHANGED <<linkVars, workerVars, geometryVars>>

\* abortSimulation(), which returns at once when no run is in flight
AbortSimulation ==
    /\ isRunning
    /\ workers' = initWorker(workers, worker)
    /\ worker' = Len(workers')
    /\ isRunning' = FALSE
    /\ promises' = GiveUp(promises, CurrentRun)
    /\ UNCHANGED calls
    /\ UNCHANGED <<linkVars, workerVars, geometryVars>>

\* dispose()
Dispose ==
    /\ worker # 0 \/ isRunning
    /\ workers' = IF worker # 0 THEN terminate(workers, worker) ELSE workers
    /\ worker' = 0
    /\ isRunning' = FALSE
    /\ promises' = GiveUp(promises, CurrentRun)
    /\ UNCHANGED calls
    /\ UNCHANGED <<linkVars, workerVars, geometryVars>>

\* after the constructor: initWorker() has created the first Worker
EngineInit ==
    /\ isRunning = FALSE
    /\ workers = initWorker(<< >>, 0)
    /\ worker = 1
    /\ promises = << >>
    /\ calls = << >>
    /\ SPECIAL_CONFIG \in BOOLEAN
    /\ EMERGENCY_MODE = TRUE
    /\ params = [beaconHalfAngle |-> 70, iridiumHalfAngle |-> 31]
    /\ beaconTimeline = << >>
    /\ iridiumTimeline = << >>
    /\ metrics = NoMetrics
    /\ result = NoResult
    /\ rerun = FALSE
    /\ request = NoRequest
    /\ propagated = NotPropagated
    /\ outbox = << >>
    /\ panel = NoPanel
    /\ orbits = NoOrbits
    /\ segment = NoSegment
    /\ inbox = << >>

EngineNext ==
    \/ RunSimulation
    \/ WorkerPost
    \/ Deliver
    \/ WorkerError
    \/ AbortSimulation
    \/ Dispose

EngineSpec == EngineInit /\ [][EngineNext]_vars

\* a running worker goes on posting, and the page goes on receiving
EngineFairSpec == EngineSpec /\ WF_vars(WorkerPost) /\ WF_vars(Deliver)

----------------------------------------------------------------------------
(* Properties of the SimulationEngine                                      *)

\* the promises of runs in flight: not settled and not given up
InFlight ==
    { p \in 1..Len(promises) :
        promises[p].state = "pending" /\ ~promises[p].abandoned }

\* a step that is a call of runSimulation
Calling == Len(calls') = Len(calls) + 1

\* C24: the engine has at most one simulation in flight: a call of
\* runSimulation made while a run is in flight throws, sends no 'start'
\* message, and leaves the handlers and isRunning as they were.
C24_OneSimulationInFlight ==
    /\ [](Cardinality(InFlight) <= 1)
    /\ [][(Calling /\ InFlight # {}) =>
            /\ calls'[Len(calls')] = "thrown"
            /\ UNCHANGED <<isRunning, worker, workers, promises>>]_vars

\* a call was refused while a run was in flight
C24_Witness ==
    /\ Len(calls) >= 2
    /\ calls[Len(calls)] = "thrown"
    /\ InFlight # {}
    /\ isRunning

\* promise p was made
Created(p) == p <= Len(promises)

\* promise p was resolved or rejected
Settled(p) == Created(p) /\ promises[p].state # "pending"

\* C25: the promise of runSimulation resolves on 'result' and rejects on
\* 'error' or on a worker error; every promise is eventually settled, and
\* settled exactly once, also when the run is aborted or the engine is
\* disposed.
C25_PromiseSettledOnce ==
    /\ [](\A p \in 1..Len(promises) : promises[p].settled <= 1)
    /\ \A p \in 1..MaxCalls :
          Created(p) ~> Settled(p)

\* C28: the engine is reusable: a call made when isRunning is false is
\* accepted and posts 'start' to a live worker whose handlers settle the new
\* promise; isRunning is true only while a run is in flight; every worker
\* other than the current one is terminated and none of its messages is
\* received, so a message received settles the run that made the worker
\* post it.
C28_EngineReusable ==
    /\ [][(Calling /\ ~isRunning) =>
            /\ calls'[Len(calls')] = "accepted"
            /\ isRunning'
            /\ worker' # 0
            /\ ~workers'[worker'].terminated
            /\ workers'[worker'].handlers = Len(promises')
            /\ Len(promises') = Len(promises) + 1
            /\ workers'[worker'].toPost # << >>
            /\ \A i \in 1..Len(workers'[worker'].toPost) :
                  workers'[worker'].toPost[i].run = Len(promises')]_vars
    /\ [](isRunning => InFlight # {} /\ CurrentRun \in InFlight)
    /\ [](\A w \in 1..Len(workers) :
            /\ w # worker =>
                  /\ workers[w].terminated
                  /\ workers[w].toPost = << >>
                  /\ workers[w].posted = << >>
            /\ \A i \in 1..Len(workers[w].posted) :
                  workers[w].posted[i].run = workers[w].handlers
            /\ \A i \in 1..Len(workers[w].toPost) :
                  workers[w].toPost[i].run = workers[w].handlers)

\* a run was accepted on a new worker after an earlier run was given up
\* while its worker had messages to post
C28_Witness ==
    /\ isRunning
    /\ Len(promises) >= 2
    /\ promises[1].abandoned
    /\ workers[1].terminated
    /\ worker > 1
    /\ workers[worker].posted # << >>

====
